---- MODULE Spec2Model ----
(***************************************************************************)
(* Model of src/server/onWebSocketConnection.js: the per-connection        *)
(* subscription multiplexer of rxremote.  One connection is modelled: its  *)
(* socket (readyState, the wire), the closure state of                     *)
(* onWebSocketConnection (sessionId, subscriptions), the Rx subscriptions  *)
(* it started, and the two sinks it writes to (eventSubject, logSubject).  *)
(***************************************************************************)
EXTENDS Integers, Sequences, FiniteSets, TLC

\* Bounds of the model.
MaxMsgs == 2      \* inbound frames handled on the connection
MaxLen == 2       \* items a source emits before it terminates

VARIABLES
  readyState,     \* socket.readyState: 1 OPEN, 2 CLOSING, 3 CLOSED
  closed,         \* the socket's 'close' event has been delivered (cleanup ran)
  sessionId,      \* let sessionId
  subscriptions,  \* let subscriptions: property key -> index into streams
  streams,        \* every Rx subscription started by the connection, in order
  sent,           \* frames written with socket.send, in order
  events,         \* pairs handed to eventSubject.next, in order
  calls,          \* arguments of every call of a catalog factory, in order
  logs,           \* lines handed to logSubject.next by the latest step
  last,           \* the latest step: which callback ran, and on what
  nmsg            \* number of inbound frames handled

vars == <<readyState, closed, sessionId, subscriptions, streams, sent, events,
          calls, logs, last, nmsg>>

----------------------------------------------------------------------------
\* JavaScript values that occur in frames: a type tag, a number, a string.

Undefined == [t |-> "undefined", n |-> 0, s |-> ""]
Null == [t |-> "null", n |-> 0, s |-> ""]
Num(n) == [t |-> "number", n |-> n, s |-> ""]
Str(s) == [t |-> "string", n |-> 0, s |-> s]

\* typeof v
typeof(v) == IF v.t = "null" THEN "object" ELSE v.t

\* ToPropertyKey(v), also String(v): what `v in obj`, obj[v] and '' + v use.
PropertyKey(v) ==
  CASE v.t = "number" -> ToString(v.n)
    [] v.t = "string" -> v.s
    [] OTHER -> v.t

\* Constructor arguments of the connection.
remoteAddr == "10.0.0.1"
connectionId == "c1"

----------------------------------------------------------------------------
\* Inbound frames.  k is what the text of the frame is: not JSON at all, the
\* JSON text null, a JSON primitive, or a JSON object with the fields given
\* (a field the object lacks reads as undefined).

Frame(k, type, sid, subId, name, offset) ==
  [k |-> k, type |-> type, sessionId |-> sid, subscriptionId |-> subId,
   name |-> name, offset |-> offset]

Garbage == Frame("garbage", Undefined, Undefined, Undefined, Undefined, Undefined)
JsonNull == Frame("null", Undefined, Undefined, Undefined, Undefined, Undefined)
JsonPrim == Frame("prim", Undefined, Undefined, Undefined, Undefined, Undefined)

HelloFrame(sid) ==
  Frame("object", Str("hello"), sid, Undefined, Undefined, Undefined)
SubscribeFrame(subId, name, offset) ==
  Frame("object", Str("subscribe"), Undefined, subId, name, offset)
UnsubscribeFrame(subId) ==
  Frame("object", Str("unsubscribe"), Undefined, subId, Undefined, Undefined)

SubIds == {Num(1), Num(2)}
BadSubIds == {Str("1"), Undefined}
SessionIds == {Str("s1"), Str("s2")}
BadSessionIds == {Num(7), Undefined}
Offsets == {Num(0)}
BadOffsets == {Str("0"), Undefined}
Names == {Str("feed"), Str("fail"), Str("arr"), Str("bad"), Str("nope"), Undefined}

Frames ==
  {Garbage, JsonNull, JsonPrim}
  \cup {Frame("object", ty, Undefined, Num(1), Str("feed"), Num(0))
          : ty \in {Undefined, Num(3), Str("ping")}}
  \cup {HelloFrame(s) : s \in SessionIds \cup BadSessionIds}
  \cup {SubscribeFrame(i, nm, o) : i \in SubIds, nm \in Names, o \in Offsets}
  \cup {SubscribeFrame(Num(1), Str("feed"), o) : o \in BadOffsets}
  \cup {SubscribeFrame(i, Str("feed"), Num(0)) : i \in BadSubIds}
  \cup {UnsubscribeFrame(i) : i \in SubIds \cup BadSubIds}

\* parseJSON(data): JSON.parse, with null for a text that does not parse.
parseJSON(data) == IF data.k = "garbage" THEN JsonNull ELSE data

----------------------------------------------------------------------------
\* The stream catalog (`observables`) and what its factories return.

\* The sources emit the items 1, 2, ... in this order: a source is given
\* by the number of items it emits before it terminates.
SeqsUpTo(n) == {[j \in 1..k |-> Num(j)] : k \in 0..n}

NoFactory == "none"

\* observables[message.name]
lookup(name) ==
  CASE PropertyKey(name) = "feed" -> "feed"
    [] PropertyKey(name) = "fail" -> "fail"
    [] PropertyKey(name) = "arr" -> "arr"
    [] PropertyKey(name) = "bad" -> "bad"
    [] OTHER -> NoFactory

Source(kind, hasArray, items, term) ==
  [kind |-> kind, hasArray |-> hasArray, items |-> items, term |-> term]

\* fn(message.offset, socket, sessionId): the values the factory may return.
\* "feed" and "fail" give an Observable that emits items and then completes
\* or errors, "arr" an ArrayObservable (it carries .array), "bad" something
\* that is no Observable (null, or an object without subscribe).
Factory(fn, offset, sid) ==
  CASE fn = "feed" -> {Source("observable", FALSE, S, "complete") : S \in SeqsUpTo(MaxLen)}
    [] fn = "fail" -> {Source("observable", FALSE, S, "error") : S \in SeqsUpTo(MaxLen - 1)}
    [] fn = "arr" -> {Source("observable", TRUE, S, "complete") : S \in SeqsUpTo(MaxLen)}
    [] OTHER -> {Source("null", FALSE, <<>>, "complete"),
                 Source("plain", FALSE, <<>>, "complete")}

\* observable && typeof observable.subscribe === 'function'
IsObservable(observable) == observable.kind = "observable"

\* Mutant: an ArrayObservable is not recognised and goes to rewrapBatches.
IsArrayObservable_never(observable) == FALSE

\* Array.isArray(observable.array)
IsArrayObservable(observable) == observable.hasArray

\* The value a failing source passes to observer.error.
StreamFailure == Str("boom")

----------------------------------------------------------------------------
\* Outbound envelopes: the object handed to send, and its JSON text.

NoError == [val |-> Undefined, code |-> Undefined, message |-> Undefined]

\* Mutant: only the first item of a batch is sent.
EventsEnvelope_firstItem(batch, subscriptionId) ==
  [type |-> "events", subscriptionId |-> subscriptionId,
   batch |-> IF batch = <<>> THEN <<>> ELSE <<batch[1]>>, error |-> NoError]

EventsEnvelope(batch, subscriptionId) ==
  [type |-> "events", subscriptionId |-> subscriptionId, batch |-> batch,
   error |-> NoError]
ErrorEnvelope(error, subscriptionId) ==
  [type |-> "error", subscriptionId |-> subscriptionId, batch |-> <<>>,
   error |-> [val |-> error, code |-> Undefined, message |-> Undefined]]
CompleteEnvelope(subscriptionId) ==
  [type |-> "complete", subscriptionId |-> subscriptionId, batch |-> <<>>,
   error |-> NoError]

\* Mutant: the 404 answer carries the code of the 500 answer.
NotFoundEnvelope_wrongCode(subscriptionId) ==
  [type |-> "error", subscriptionId |-> subscriptionId, batch |-> <<>>,
   error |-> [val |-> Null, code |-> Str("500"), message |-> Str("Not found")]]

NotFoundEnvelope(subscriptionId) ==
  [type |-> "error", subscriptionId |-> subscriptionId, batch |-> <<>>,
   error |-> [val |-> Null, code |-> Num(404), message |-> Str("Not found")]]
InternalErrorEnvelope(subscriptionId) ==
  [type |-> "error", subscriptionId |-> subscriptionId, batch |-> <<>>,
   error |-> [val |-> Null, code |-> Str("500"),
              message |-> Str("Internal Server Error")]]

\* JSON.stringify of a value inside an array: undefined becomes null.
JsonElement(v) == IF v.t = "undefined" THEN Null ELSE v

\* JSON.stringify(object): a property whose value is undefined is left out
\* (it reads back as undefined); array elements go through JsonElement.
JSONstringify(object) ==
  [object EXCEPT !.batch = [i \in DOMAIN object.batch |-> JsonElement(object.batch[i])]]

\* log(message): the line handed to logSubject.next.
log(message) == <<remoteAddr>> \o message

\* Mutant: send writes whatever socket.readyState is.
send_unguarded(wire, object) == Append(wire, JSONstringify(object))

\* send(object): the wire after the call, and the lines it logs.
send(wire, object) ==
  IF readyState = 1 THEN Append(wire, JSONstringify(object)) ELSE wire
sendLog(object) ==
  IF readyState = 1 THEN <<>>
  ELSE <<log(<<"Tried to send to WebSocket in readyState: ", ToString(readyState)>>)>>

\* Mutant: the event is built before sessionId is assigned.
insertEvent_stale(sink, type, sid) ==
  Append(sink, [event |-> type,
                meta |-> [connectionId |-> connectionId, sessionId |-> sessionId,
                          ipAddress |-> remoteAddr]])

\* insertEvent(event) with the sessionId given: eventSubject after the call.
insertEvent(sink, type, sid) ==
  Append(sink, [event |-> type,
                meta |-> [connectionId |-> connectionId, sessionId |-> sid,
                          ipAddress |-> remoteAddr]])

----------------------------------------------------------------------------
\* Rx subscriptions.

\* key in subscriptions
In(key, table) == PropertyKey(key) \in DOMAIN table

\* Mutant: unsubscribe() is not called.
RxUnsubscribe_notCalled(s) == s

\* subscription.unsubscribe(): closes the subscription, after which Rx calls
\* its observer no more; on a closed one it does nothing.
RxUnsubscribe(s) == [s EXCEPT !.closed = TRUE]

\* Bookkeeping: which caller first called unsubscribe() on the subscription.
Cancelled(s, by) == [s EXCEPT !.cancelledBy = IF @ = "" THEN by ELSE @]

Wrote(k) == IF readyState = 1 THEN k ELSE 0
Dropped(k) == IF readyState = 1 THEN 0 ELSE k

\* batchedResults.subscribe(createObserver(subscriptionId)) on
\* Rx.Observable.of(observable.array): next(array) and complete() run inside
\* the call, so the subscription it returns is closed already.
ArraySubscription(message, observable) ==
  [sid |-> message.subscriptionId, name |-> message.name, array |-> TRUE,
   source |-> observable.items, pending |-> <<>>, term |-> "complete",
   closed |-> TRUE, done |-> "complete", cancelledBy |-> "",
   wrote |-> Wrote(2), dropped |-> Dropped(2)]

\* The same on rewrapBatches(observable): batches arrive later.
BatchedSubscription(message, observable) ==
  [sid |-> message.subscriptionId, name |-> message.name, array |-> FALSE,
   source |-> observable.items, pending |-> observable.items,
   term |-> observable.term,
   closed |-> FALSE, done |-> "", cancelledBy |-> "",
   wrote |-> 0, dropped |-> 0]

----------------------------------------------------------------------------
Init ==
  /\ readyState = 1
  /\ closed = FALSE
  /\ sessionId = Null
  /\ subscriptions = [k \in {} |-> 0]
  /\ streams = <<>>
  /\ sent = <<>>
  /\ events = <<>>
  /\ calls = <<>>
  /\ logs = <<log(<<"WebSocket connection opened">>)>>
  /\ last = [op |-> "init", data |-> Garbage, stream |-> 0]
  /\ nmsg = 0

\* A branch of the message handler that only logs.
Ignore(lines) ==
  /\ logs' = lines
  /\ UNCHANGED <<readyState, closed, sessionId, subscriptions, streams, sent, events, calls>>

\* case 'hello'
Hello(message) ==
  IF typeof(message.sessionId) # "string"
  THEN Ignore(<<log(<<"expected sessionId">>)>>)
  ELSE /\ sessionId' = message.sessionId
       /\ events' = insertEvent(events, "connection-open", message.sessionId)
       /\ logs' = <<log(<<"open session ", PropertyKey(message.sessionId)>>)>>
       /\ UNCHANGED <<readyState, closed, subscriptions, streams, sent, calls>>

\* The subscribe branches that answer with one error envelope.
Reply(message, envelope) ==
  /\ sent' = send(sent, envelope)
  /\ logs' = <<log(<<"subscribing to ", PropertyKey(message.name)>>)>> \o sendLog(envelope)
  /\ UNCHANGED <<readyState, closed, sessionId, subscriptions, streams, events>>

\* The subscribe branch that starts a stream and stores its subscription.
Start(message, observable) ==
  LET id == message.subscriptionId
      subscription == IF IsArrayObservable(observable)
                      THEN ArraySubscription(message, observable)
                      ELSE BatchedSubscription(message, observable)
      e1 == EventsEnvelope(observable.items, id)
      e2 == CompleteEnvelope(id)
  IN /\ streams' = Append(streams, subscription)
     /\ subscriptions' =
          [k \in DOMAIN subscriptions \cup {PropertyKey(id)} |->
             IF k = PropertyKey(id) THEN Len(streams) + 1 ELSE subscriptions[k]]
     /\ sent' = IF IsArrayObservable(observable) THEN send(send(sent, e1), e2) ELSE sent
     /\ logs' = <<log(<<"subscribing to ", PropertyKey(message.name)>>)>>
                \o (IF IsArrayObservable(observable) THEN sendLog(e1) \o sendLog(e2) ELSE <<>>)
     /\ UNCHANGED <<readyState, closed, sessionId, events>>

\* Mutant: a repeated id is not detected.
SentTwice_unchecked(message) == FALSE

\* message.subscriptionId in subscriptions, in case 'subscribe'
SentTwice(message) == In(message.subscriptionId, subscriptions)

\* Mutant: the factory is called without the session of the connection.
FactoryCall_noSession(fn, message) ==
  [fn |-> fn, offset |-> message.offset, sessionId |-> Null]

\* observables[message.name](message.offset, socket, sessionId): the
\* arguments of the call, as the factory receives them.
FactoryCall(fn, message) ==
  [fn |-> fn, offset |-> message.offset, sessionId |-> sessionId]

\* case 'subscribe'
Subscribe(message) ==
  IF typeof(message.offset) # "number"
  THEN Ignore(<<log(<<"expected offset number">>)>>)
  ELSE IF typeof(message.subscriptionId) # "number"
  THEN Ignore(<<log(<<"expected subscriptionId string">>)>>)
  ELSE IF SentTwice(message)
  THEN Ignore(<<log(<<"subscriptionId sent twice: ", PropertyKey(message.subscriptionId)>>)>>)
  ELSE LET fn == lookup(message.name) IN
       IF fn # NoFactory
       THEN /\ calls' = Append(calls, FactoryCall(fn, message))
            /\ \E observable \in Factory(fn, message.offset, sessionId) :
                 IF IsObservable(observable)
                 THEN Start(message, observable)
                 ELSE Reply(message, InternalErrorEnvelope(message.subscriptionId))
       ELSE /\ Reply(message, NotFoundEnvelope(message.subscriptionId))
            /\ UNCHANGED calls

\* Mutant: an unknown id is answered with an error envelope.
UnsubscribeNotFound_replies(message) ==
  /\ sent' = send(sent, NotFoundEnvelope(message.subscriptionId))
  /\ logs' = <<log(<<"subscriptionId not found: ", PropertyKey(message.subscriptionId)>>)>>
  /\ UNCHANGED <<readyState, closed, sessionId, subscriptions, streams, events, calls>>

\* The unsubscribe branch for an id that is not a key of the table.
UnsubscribeNotFound(message) ==
  Ignore(<<log(<<"subscriptionId not found: ", PropertyKey(message.subscriptionId)>>)>>)

\* Mutant: the type of the id is not checked.
UnsubscribeIdNotNumber_unchecked(message) == FALSE

\* typeof message.subscriptionId !== 'number', in case 'unsubscribe'
UnsubscribeIdNotNumber(message) == typeof(message.subscriptionId) # "number"

\* case 'unsubscribe'
Unsubscribe(message) ==
  IF ~In(message.subscriptionId, subscriptions)
  THEN UnsubscribeNotFound(message)
  ELSE IF UnsubscribeIdNotNumber(message)
  THEN Ignore(<<log(<<"expected subscriptionId number">>)>>)
  ELSE LET key == PropertyKey(message.subscriptionId)
           i == subscriptions[key]
       IN /\ logs' = <<log(<<"unsubscribing from ", PropertyKey(streams[i].name)>>)>>
          /\ streams' = [streams EXCEPT ![i] = Cancelled(RxUnsubscribe(@), "unsubscribe")]
          /\ subscriptions' = [k \in DOMAIN subscriptions \ {key} |-> subscriptions[k]]
          /\ UNCHANGED <<readyState, closed, sessionId, sent, events, calls>>

\* The body of the message listener: parse, then dispatch on message.type.
Dispatch(data) ==
  LET message == parseJSON(data) IN
    IF message.k = "null"
    THEN Ignore(<<log(<<"Error parsing JSON">>)>>)
    ELSE IF typeof(message.type) # "string"
    THEN Ignore(<<log(<<"Received message without a type">>)>>)
    ELSE CASE message.type.s = "hello" -> Hello(message)
           [] message.type.s = "subscribe" -> Subscribe(message)
           [] message.type.s = "unsubscribe" -> Unsubscribe(message)
           [] OTHER -> Ignore(<<log(<<"Received unknown message type ", message.type.s>>)>>)

\* socket.on('message', ...): the socket delivers frames until its close
\* event.
OnMessage(data) ==
  /\ ~closed
  /\ nmsg < MaxMsgs
  /\ nmsg' = nmsg + 1
  /\ last' = [op |-> "message", data |-> data, stream |-> 0]
  /\ Dispatch(data)

\* rewrapBatches(observable), one step: the batching adapter groups the
\* first k items its source has emitted and not yet delivered into a batch.
rewrapBatches(pending, k) ==
  [batch |-> SubSeq(pending, 1, k), rest |-> SubSeq(pending, k + 1, Len(pending))]

\* A callback of the observer of stream i: the envelope goes through send.
Emit(i, op, envelope, s) ==
  /\ sent' = send(sent, envelope)
  /\ streams' = [streams EXCEPT ![i] =
                   [s EXCEPT !.wrote = @ + Wrote(1), !.dropped = @ + Dropped(1)]]
  /\ last' = [op |-> op, data |-> Garbage, stream |-> i]
  /\ UNCHANGED <<readyState, closed, sessionId, subscriptions, events, calls, nmsg>>

\* createObserver(subscriptionId).next(batch): the batching adapter hands
\* over the next k pending items of the source as one batch.
ObserverNext(i, k) ==
  /\ ~streams[i].closed
  /\ k \in 1..Len(streams[i].pending)
  /\ LET next == rewrapBatches(streams[i].pending, k)
         envelope == EventsEnvelope(next.batch, streams[i].sid)
     IN /\ Emit(i, "next", envelope, [streams[i] EXCEPT !.pending = next.rest])
        /\ logs' = sendLog(envelope)

\* Mutant: a stream error tears down every subscription of the connection.
ObserverError_cancelsAll(i) ==
  /\ ~streams[i].closed
  /\ streams[i].pending = <<>>
  /\ streams[i].term = "error"
  /\ LET envelope == ErrorEnvelope(StreamFailure, streams[i].sid)
     IN /\ sent' = send(sent, envelope)
        /\ streams' = [j \in DOMAIN streams |->
                         IF j = i
                         THEN [streams[i] EXCEPT !.closed = TRUE, !.done = "error",
                                                 !.wrote = @ + Wrote(1),
                                                 !.dropped = @ + Dropped(1)]
                         ELSE RxUnsubscribe(streams[j])]
        /\ last' = [op |-> "error", data |-> Garbage, stream |-> i]
        /\ logs' = <<log(<<PropertyKey(StreamFailure)>>)>> \o sendLog(envelope)
        /\ UNCHANGED <<readyState, closed, sessionId, subscriptions, events, calls, nmsg>>

\* createObserver(subscriptionId).error(error)
ObserverError(i) ==
  /\ ~streams[i].closed
  /\ streams[i].pending = <<>>
  /\ streams[i].term = "error"
  /\ LET envelope == ErrorEnvelope(StreamFailure, streams[i].sid)
     IN /\ Emit(i, "error", envelope,
                [streams[i] EXCEPT !.closed = TRUE, !.done = "error"])
        /\ logs' = <<log(<<PropertyKey(StreamFailure)>>)>> \o sendLog(envelope)

\* Mutant: complete() closes the stream without sending its envelope.
ObserverComplete_silent(i) ==
  /\ ~streams[i].closed
  /\ streams[i].pending = <<>>
  /\ streams[i].term = "complete"
  /\ streams' = [streams EXCEPT ![i] = [@ EXCEPT !.closed = TRUE, !.done = "complete"]]
  /\ last' = [op |-> "complete", data |-> Garbage, stream |-> i]
  /\ logs' = <<>>
  /\ UNCHANGED <<readyState, closed, sessionId, subscriptions, sent, events, calls, nmsg>>

\* Mutant: complete() sends its envelope and the observer stays callable.
ObserverComplete_staysOpen(i) ==
  /\ ~streams[i].closed
  /\ streams[i].pending = <<>>
  /\ streams[i].term = "complete"
  /\ streams[i].wrote + streams[i].dropped < MaxLen + 2
  /\ LET envelope == CompleteEnvelope(streams[i].sid)
     IN /\ Emit(i, "complete", envelope, [streams[i] EXCEPT !.done = "complete"])
        /\ logs' = sendLog(envelope)

\* createObserver(subscriptionId).complete()
ObserverComplete(i) ==
  /\ ~streams[i].closed
  /\ streams[i].pending = <<>>
  /\ streams[i].term = "complete"
  /\ LET envelope == CompleteEnvelope(streams[i].sid)
     IN /\ Emit(i, "complete", envelope,
                [streams[i] EXCEPT !.closed = TRUE, !.done = "complete"])
        /\ logs' = sendLog(envelope)

\* Mutant: the subscriptions are cancelled and the table keeps its keys.
cleanup_keepsTable ==
  /\ logs' = <<log(<<"Closing WebSocket">>)>>
  /\ streams' = [i \in DOMAIN streams |->
                   IF \E key \in DOMAIN subscriptions : subscriptions[key] = i
                   THEN Cancelled(RxUnsubscribe(streams[i]), "cleanup")
                   ELSE streams[i]]
  /\ events' = insertEvent(events, "connection-closed", sessionId)
  /\ UNCHANGED <<sessionId, sent, calls, subscriptions>>

\* Mutant: the table is cleared without cancelling its subscriptions.
cleanup_onlyClears ==
  /\ logs' = <<log(<<"Closing WebSocket">>)>>
  /\ subscriptions' = [k \in {} |-> 0]
  /\ events' = insertEvent(events, "connection-closed", sessionId)
  /\ UNCHANGED <<sessionId, sent, calls, streams>>

\* function cleanup()
cleanup ==
  /\ logs' = <<log(<<"Closing WebSocket">>)>>
  /\ streams' = [i \in DOMAIN streams |->
                   IF \E key \in DOMAIN subscriptions : subscriptions[key] = i
                   THEN Cancelled(RxUnsubscribe(streams[i]), "cleanup")
                   ELSE streams[i]]
  /\ subscriptions' = [k \in {} |-> 0]
  /\ events' = insertEvent(events, "connection-closed", sessionId)
  /\ UNCHANGED <<sessionId, sent, calls>>

\* The socket starts its closing handshake: frames may still arrive.
SocketClosing ==
  /\ readyState = 1
  /\ readyState' = 2
  /\ last' = [op |-> "closing", data |-> Garbage, stream |-> 0]
  /\ UNCHANGED <<closed, sessionId, subscriptions, streams, sent, events, calls, logs, nmsg>>

\* socket.on('close', cleanup): the socket is CLOSED when the event fires.
SocketClose ==
  /\ ~closed
  /\ readyState' = 3
  /\ closed' = TRUE
  /\ last' = [op |-> "close", data |-> Garbage, stream |-> 0]
  /\ cleanup
  /\ UNCHANGED nmsg

Next ==
  \/ \E data \in Frames : OnMessage(data)
  \/ \E i \in DOMAIN streams : \E k \in 1..MaxLen : ObserverNext(i, k)
  \/ \E i \in DOMAIN streams : ObserverError(i)
  \/ \E i \in DOMAIN streams : ObserverComplete(i)
  \/ SocketClosing
  \/ SocketClose

Spec == Init /\ [][Next]_vars

\* The same connection on longer runs of fewer frames: a client that uses
\* one subscriptionId over and over.
ReuseFrames ==
  {SubscribeFrame(Num(1), nm, Num(0)) : nm \in {Str("feed"), Str("fail"), Str("arr")}}
  \cup {UnsubscribeFrame(Num(1))}

OnReuseMessage(data) ==
  /\ ~closed
  /\ nmsg < MaxMsgs + 2
  /\ nmsg' = nmsg + 1
  /\ last' = [op |-> "message", data |-> data, stream |-> 0]
  /\ Dispatch(data)

NextReuse ==
  \/ \E data \in ReuseFrames : OnReuseMessage(data)
  \/ \E i \in DOMAIN streams : \E k \in 1..MaxLen : ObserverNext(i, k)
  \/ \E i \in DOMAIN streams : ObserverError(i)
  \/ \E i \in DOMAIN streams : ObserverComplete(i)
  \/ SocketClosing
  \/ SocketClose

SpecReuse == Init /\ [][NextReuse]_vars

\* The connection of a client that subscribes and unsubscribes well-formed,
\* with the callbacks of every stream scheduled fairly: a source that can
\* emit or terminate does so eventually.
LiveFrames ==
  {SubscribeFrame(Num(1), nm, Num(0)) : nm \in {Str("feed"), Str("fail"), Str("arr")}}
  \cup {SubscribeFrame(Num(2), Str("feed"), Num(0)), UnsubscribeFrame(Num(1))}

\* Any callback of the observer of the i-th stream started.
StreamStep(i) ==
  /\ i \in DOMAIN streams
  /\ \/ \E k \in 1..MaxLen : ObserverNext(i, k)
     \/ ObserverError(i)
     \/ ObserverComplete(i)

NextLive ==
  \/ \E data \in LiveFrames : OnMessage(data)
  \/ \E i \in 1..MaxMsgs : StreamStep(i)
  \/ SocketClosing
  \/ SocketClose

LiveSpec ==
  Init /\ [][NextLive]_vars /\ \A i \in 1..MaxMsgs : WF_vars(StreamStep(i))

----------------------------------------------------------------------------
\* Vocabulary of the properties.

IsMessage(l) == l.op = "message"
IsObject(d) == d.k = "object" /\ d.type.t = "string"
IsHello(d) == IsObject(d) /\ d.type.s = "hello"
IsSubscribe(d) == IsObject(d) /\ d.type.s = "subscribe"
IsUnsubscribe(d) == IsObject(d) /\ d.type.s = "unsubscribe"

\* A subscribe with a numeric offset and a numeric subscriptionId.
WellFormedSubscribe(d) ==
  IsSubscribe(d) /\ d.offset.t = "number" /\ d.subscriptionId.t = "number"

\* The malformed payloads: text that is no JSON, a payload without a string
\* type, an unknown type, and a known type with a mistyped field.
Malformed(d) ==
  \/ d.k = "garbage"
  \/ ~IsObject(d)
  \/ d.type.s \notin {"hello", "subscribe", "unsubscribe"}
  \/ IsHello(d) /\ d.sessionId.t # "string"
  \/ IsSubscribe(d) /\ (d.offset.t # "number" \/ d.subscriptionId.t # "number")
  \/ IsUnsubscribe(d) /\ d.subscriptionId.t # "number"

\* The property key under which the table holds the id of a frame.
KeyOf(d) == PropertyKey(d.subscriptionId)

\* The streams the table refers to.
Referenced(table) == {table[k] : k \in DOMAIN table}

\* C1: handling a malformed payload leaves the subscription table as it was
\* and does not close the connection.
C1_MalformedIgnored ==
  [][(IsMessage(last') /\ Malformed(last'.data))
       => (subscriptions' = subscriptions /\ streams' = streams
           /\ closed' = closed /\ readyState' = readyState)]_vars

\* C1 witness: an unsubscribe whose id is the string "1" was handled while
\* the table held an entry under the key "1".
C1_Witness ==
  /\ IsMessage(last)
  /\ last.data = UnsubscribeFrame(Str("1"))
  /\ "1" \in DOMAIN subscriptions

\* C2: a subscribe whose id is already in the table changes nothing: no
\* table change, no factory call, no envelope, the stream under the id as
\* it was.
C2_DuplicateSubscribe ==
  [][(IsMessage(last') /\ WellFormedSubscribe(last'.data)
      /\ KeyOf(last'.data) \in DOMAIN subscriptions)
       => (subscriptions' = subscriptions /\ streams' = streams
           /\ calls' = calls /\ sent' = sent /\ events' = events)]_vars

\* C2 witness: a duplicate subscribe was handled while the stream under the
\* id was open with items still to deliver.
C2_Witness ==
  /\ IsMessage(last)
  /\ WellFormedSubscribe(last.data)
  /\ logs = <<log(<<"subscriptionId sent twice: ", KeyOf(last.data)>>)>>
  /\ KeyOf(last.data) \in DOMAIN subscriptions
  /\ ~streams[subscriptions[KeyOf(last.data)]].closed
  /\ streams[subscriptions[KeyOf(last.data)]].pending # <<>>

\* C3: an unsubscribe whose id is not in the table sends nothing, cancels
\* nothing and leaves the table unchanged.
C3_UnsubscribeUnknown ==
  [][(IsMessage(last') /\ IsUnsubscribe(last'.data)
      /\ KeyOf(last'.data) \notin DOMAIN subscriptions)
       => (sent' = sent /\ streams' = streams /\ subscriptions' = subscriptions)]_vars

\* C3 witness: an unsubscribe of id 2 was handled while the table held only
\* id 1, whose stream is open.
C3_Witness ==
  /\ IsMessage(last)
  /\ last.data = UnsubscribeFrame(Num(2))
  /\ DOMAIN subscriptions = {"1"}
  /\ ~streams[subscriptions["1"]].closed

\* C4: a well-formed subscribe with a fresh id and a name the catalog does
\* not resolve, on an open transport, sends exactly one envelope, error with
\* that id, code 404 and message "Not found", and adds no table entry.
C4_NotFound ==
  [][(IsMessage(last') /\ WellFormedSubscribe(last'.data)
      /\ KeyOf(last'.data) \notin DOMAIN subscriptions
      /\ lookup(last'.data.name) = NoFactory
      /\ readyState = 1)
       => (/\ sent' = Append(sent,
                        [type |-> "error",
                         subscriptionId |-> last'.data.subscriptionId,
                         batch |-> <<>>,
                         error |-> [val |-> Null, code |-> Num(404),
                                    message |-> Str("Not found")]])
           /\ subscriptions' = subscriptions
           /\ streams' = streams
           /\ calls' = calls)]_vars

\* C4 witness: the answer to a subscribe to "nope" is the last frame sent,
\* while another subscription is in the table.
C4_Witness ==
  /\ IsMessage(last)
  /\ last.data = SubscribeFrame(Num(2), Str("nope"), Num(0))
  /\ DOMAIN subscriptions = {"1"}
  /\ sent # <<>>
  /\ sent[Len(sent)].type = "error"
  /\ sent[Len(sent)].subscriptionId = Num(2)
  /\ sent[Len(sent)].error.code = Num(404)

\* C5 as claimed: a well-formed subscribe with a fresh id whose factory
\* returns no Observable, on an open transport, sends exactly one envelope,
\* error with that id, the number 500 and "Internal Server Error", and adds
\* no table entry.
C5_InternalErrorNumber ==
  [][(IsMessage(last') /\ WellFormedSubscribe(last'.data)
      /\ KeyOf(last'.data) \notin DOMAIN subscriptions
      /\ lookup(last'.data.name) = "bad"
      /\ readyState = 1)
       => (/\ sent' = Append(sent,
                        [type |-> "error",
                         subscriptionId |-> last'.data.subscriptionId,
                         batch |-> <<>>,
                         error |-> [val |-> Null, code |-> Num(500),
                                    message |-> Str("Internal Server Error")]])
           /\ subscriptions' = subscriptions
           /\ streams' = streams)]_vars

\* An unsubscribe that names, by a number, an id of the table.
AcceptedUnsubscribe(d, table) ==
  IsUnsubscribe(d) /\ d.subscriptionId.t = "number" /\ KeyOf(d) \in DOMAIN table

\* C6: an unsubscribe with a numeric id of the table closes the subscription
\* under the id and removes the id, leaving the other entries, and a stream
\* cancelled by an unsubscribe never again writes to the transport nor runs
\* a callback, whatever its source still holds.
C6_UnsubscribeCancels ==
  [][/\ (IsMessage(last') /\ AcceptedUnsubscribe(last'.data, subscriptions))
          => (/\ DOMAIN subscriptions' = DOMAIN subscriptions \ {KeyOf(last'.data)}
              /\ \A k \in DOMAIN subscriptions' : subscriptions'[k] = subscriptions[k]
              /\ streams'[subscriptions[KeyOf(last'.data)]].closed
              /\ sent' = sent)
     /\ \A i \in DOMAIN streams :
          streams[i].cancelledBy = "unsubscribe"
            => (streams'[i] = streams[i] /\ (last'.stream = i => last' = last))]_vars

\* C6 witness: a stream cancelled by an unsubscribe on an open transport
\* after it delivered one batch, with an item of its source undelivered.
C6_Witness ==
  \E i \in DOMAIN streams :
    /\ streams[i].cancelledBy = "unsubscribe"
    /\ streams[i].done = ""
    /\ streams[i].wrote = 1
    /\ streams[i].pending # <<>>
    /\ readyState = 1
    /\ DOMAIN subscriptions = {}

\* The number of connection-closed events handed to the sink.
ClosedEvents == Cardinality({n \in DOMAIN events : events[n].event = "connection-closed"})

\* C7: the close event cancels every subscription of the table, empties the
\* table and emits one connection-closed event, the only one ever; after it
\* nothing more reaches the transport.
C7_CloseCleansUp ==
  [][/\ (~closed /\ closed')
          => (/\ \A k \in DOMAIN subscriptions : streams'[subscriptions[k]].closed
              /\ DOMAIN subscriptions' = {}
              /\ ClosedEvents = 0
              /\ Len(events') = Len(events) + 1
              /\ events'[Len(events')].event = "connection-closed"
              /\ sent' = sent)
     /\ closed => (sent' = sent /\ events' = events /\ DOMAIN subscriptions' = {})
     /\ closed' => (ClosedEvents' = 1 /\ \A i \in DOMAIN streams' : streams'[i].closed)]_vars

\* C7 witness: the connection closed, with no hello ever handled, while two
\* streams with undelivered items were in the table.
C7_Witness ==
  /\ closed
  /\ sessionId = Null
  /\ Len(streams) = 2
  /\ \A i \in DOMAIN streams :
       streams[i].cancelledBy = "cleanup" /\ streams[i].pending # <<>>
  /\ DOMAIN subscriptions = {}
  /\ ClosedEvents = 1

\* C8 as claimed: a stream that has terminated (complete or error delivered
\* to its observer) is no longer in the subscription table.
C8_RemovedOnTermination ==
  \A i \in DOMAIN streams :
    streams[i].done # "" => i \notin Referenced(subscriptions)

\* A hello whose sessionId is a string.
AcceptedHello(d) == IsHello(d) /\ d.sessionId.t = "string"

\* C9: a hello with a string sessionId sets sessionId to it and emits one
\* connection-open event carrying it; sessionId starts as null and changes
\* by such a hello only; every event emitted carries the sessionId current
\* when it is emitted.
C9_SessionIdInMeta ==
  /\ sessionId = Null
  /\ events = <<>>
  /\ [][/\ (IsMessage(last') /\ AcceptedHello(last'.data))
             => (/\ sessionId' = last'.data.sessionId
                 /\ events' = Append(events,
                      [event |-> "connection-open",
                       meta |-> [connectionId |-> connectionId,
                                 sessionId |-> last'.data.sessionId,
                                 ipAddress |-> remoteAddr]]))
        /\ sessionId' # sessionId => (IsMessage(last') /\ AcceptedHello(last'.data))
        /\ events' # events
             => (/\ Len(events') = Len(events) + 1
                 /\ SubSeq(events', 1, Len(events)) = events
                 /\ events'[Len(events')].meta.sessionId = sessionId')]_vars

\* C9 witness: hello s1, hello s2, then the close: three events, carrying
\* s1, s2 and s2.
C9_Witness ==
  /\ Len(events) = 3
  /\ events[1].event = "connection-open" /\ events[1].meta.sessionId = Str("s1")
  /\ events[2].event = "connection-open" /\ events[2].meta.sessionId = Str("s2")
  /\ events[3].event = "connection-closed" /\ events[3].meta.sessionId = Str("s2")

\* The items of the batches of the events envelopes sent for an id, in the
\* order sent.
RECURSIVE BatchesOf(_, _)
BatchesOf(wire, id) ==
  IF wire = <<>> THEN <<>>
  ELSE (IF Head(wire).type = "events" /\ Head(wire).subscriptionId = id
        THEN Head(wire).batch ELSE <<>>) \o BatchesOf(Tail(wire), id)

\* C10: for a stream that completed with every envelope written to an open
\* transport, the only stream ever started under its id, the batches sent
\* for the id concatenate to the item sequence of its source.
C10_BatchesConcatenate ==
  \A i \in DOMAIN streams :
    (/\ streams[i].done = "complete"
     /\ streams[i].dropped = 0
     /\ \A j \in DOMAIN streams \ {i} : streams[j].sid # streams[i].sid)
      => BatchesOf(sent, streams[i].sid) = streams[i].source

\* C10 witness: a batched stream of two items completed after two batches of
\* one item each.
C10_Witness ==
  \E i \in DOMAIN streams :
    /\ ~streams[i].array
    /\ streams[i].done = "complete"
    /\ Len(streams[i].source) = 2
    /\ streams[i].wrote = 3
    /\ streams[i].dropped = 0

\* The steps that are callbacks of a stream's observer.
ObserverOps == {"next", "error", "complete"}

\* A subscribe that passes every check of the handler up to the catalog.
FreshSubscribe(d, table) == WellFormedSubscribe(d) /\ KeyOf(d) \notin DOMAIN table

\* C11: an accepted subscribe to an array-shaped source, on an open
\* transport, sends inside the handler one events envelope whose batch is
\* the whole array and then one complete envelope, and leaves a closed
\* subscription; no observer callback ever runs later for such a stream, so
\* the batching adapter delivers nothing for it.
C11_ArrayOneBatch ==
  [][/\ (IsMessage(last') /\ FreshSubscribe(last'.data, subscriptions)
         /\ lookup(last'.data.name) = "arr" /\ readyState = 1)
          => (/\ Len(streams') = Len(streams) + 1
              /\ streams'[Len(streams')].array
              /\ streams'[Len(streams')].closed
              /\ sent' = sent \o
                   <<[type |-> "events",
                      subscriptionId |-> last'.data.subscriptionId,
                      batch |-> streams'[Len(streams')].source,
                      error |-> [val |-> Undefined, code |-> Undefined,
                                 message |-> Undefined]],
                     [type |-> "complete",
                      subscriptionId |-> last'.data.subscriptionId,
                      batch |-> <<>>,
                      error |-> [val |-> Undefined, code |-> Undefined,
                                 message |-> Undefined]]>>)
     /\ \A i \in DOMAIN streams :
          (streams[i].array /\ last'.op \in ObserverOps) => last'.stream # i]_vars

\* C11 witness: an array source of two items was subscribed on an open
\* transport: one events envelope with both items, then complete.
C11_Witness ==
  /\ IsMessage(last)
  /\ last.data = SubscribeFrame(Num(1), Str("arr"), Num(0))
  /\ Len(streams) = 1
  /\ streams[1].array
  /\ Len(streams[1].source) = 2
  /\ Len(sent) = 2
  /\ sent[1].type = "events" /\ sent[1].batch = streams[1].source
  /\ sent[2].type = "complete"

\* The envelopes of streams on the wire for an id: events, complete, and
\* the error of a failed stream (the 404 and 500 answers carry a code).
IsStreamEnvelope(e, id) ==
  /\ e.subscriptionId = id
  /\ \/ e.type \in {"events", "complete"}
     \/ e.type = "error" /\ e.error.code.t = "undefined"
IsTerminal(e) == e.type \in {"complete", "error"}

StreamEnvelopes(wire, id) == SelectSeq(wire, LAMBDA e : IsStreamEnvelope(e, id))

IsPrefix(p, q) == Len(p) <= Len(q) /\ p = SubSeq(q, 1, Len(p))

\* The ids under which exactly one stream was ever started, with the stream.
SoleStream(i) == \A j \in DOMAIN streams \ {i} : streams[j].sid # streams[i].sid

\* The step is a callback of the observer of stream i.
CallbackOf(l, i) == l.op \in ObserverOps /\ l.stream = i

\* C12: the envelopes of one subscription are in source order, hold at most
\* one terminal envelope, and no events envelope follows the terminal one,
\* however the streams and the inbound frames interleave: on the wire, for
\* every id with a single stream; step by step, for every stream.
C12_OrderedOneTerminal ==
  /\ [](\A i \in DOMAIN streams :
          SoleStream(i) =>
            LET es == StreamEnvelopes(sent, streams[i].sid) IN
              /\ \A n \in DOMAIN es : IsTerminal(es[n]) => n = Len(es)
              /\ IsPrefix(BatchesOf(sent, streams[i].sid), streams[i].source))
  /\ [][\A i \in DOMAIN streams :
          /\ streams[i].done # "" => ~CallbackOf(last', i)
          /\ (CallbackOf(last', i) /\ last'.op = "next" /\ readyState = 1)
               => LET d == Len(streams[i].source) - Len(streams[i].pending)
                      n == Len(streams[i].pending) - Len(streams'[i].pending)
                  IN /\ n >= 1
                     /\ sent' = Append(sent,
                          [type |-> "events", subscriptionId |-> streams[i].sid,
                           batch |-> SubSeq(streams[i].source, d + 1, d + n),
                           error |-> [val |-> Undefined, code |-> Undefined,
                                      message |-> Undefined]])
          /\ (CallbackOf(last', i) /\ last'.op # "next")
               => (streams'[i].done = last'.op /\ Len(sent') <= Len(sent) + 1)]_vars

\* C12 witness: the envelopes of two streams interleave on the wire, and
\* the first stream has sent its terminal envelope.
C12_Witness ==
  /\ Len(sent) = 3
  /\ sent[1].type = "events" /\ sent[1].subscriptionId = Num(1)
  /\ sent[2].type = "events" /\ sent[2].subscriptionId = Num(2)
  /\ sent[3].type = "complete" /\ sent[3].subscriptionId = Num(1)

\* The line send logs for an envelope it drops in the current readyState.
DropLine == <<remoteAddr, "Tried to send to WebSocket in readyState: ", ToString(readyState)>>

\* The number of entries of a sequence equal to x.
Count(seq, x) == Cardinality({n \in DOMAIN seq : seq[n] = x})

\* C13: while the socket is not OPEN nothing is written to it, and it does
\* not become OPEN again; an envelope attempted then (by an observer
\* callback, by a 404 or 500 answer, by an array source's two envelopes) is
\* logged as dropped, and the drop changes neither the table nor the state
\* of the connection.
C13_NoWriteUnlessOpen ==
  [][/\ readyState # 1 => (sent' = sent /\ readyState' # 1)
     /\ \A i \in DOMAIN streams :
          (readyState # 1 /\ CallbackOf(last', i))
            => (/\ Count(logs', DropLine) = 1
                /\ streams'[i].dropped = streams[i].dropped + 1
                /\ streams'[i].wrote = streams[i].wrote
                /\ UNCHANGED <<subscriptions, sessionId, closed, readyState, events>>)
     /\ (readyState # 1 /\ IsMessage(last')
         /\ FreshSubscribe(last'.data, subscriptions)
         /\ lookup(last'.data.name) \in {NoFactory, "bad"})
          => (/\ Count(logs', DropLine) = 1
              /\ UNCHANGED <<subscriptions, streams, sessionId, closed, readyState, events>>)
     /\ (readyState # 1 /\ IsMessage(last')
         /\ FreshSubscribe(last'.data, subscriptions)
         /\ lookup(last'.data.name) = "arr")
          => (/\ logs' = <<log(<<"subscribing to ", "arr">>), DropLine, DropLine>>
              /\ streams'[Len(streams')].dropped = 2
              /\ UNCHANGED <<sessionId, closed, readyState, events>>)]_vars

\* C13 witness: a stream wrote one batch while the socket was OPEN, and
\* its next batch was dropped and logged while the socket was CLOSING.
C13_Witness ==
  /\ readyState = 2
  /\ last.op = "next"
  /\ streams[last.stream].wrote = 1
  /\ streams[last.stream].dropped = 1
  /\ logs = <<DropLine>>
  /\ Len(sent) = 1

\* C14 as claimed: a subscribe with a numeric offset and a numeric
\* subscriptionId whose name is missing or is no string gets no reply:
\* nothing is sent to the client for it.
C14_NoReplyToInvalidName ==
  [][(IsMessage(last') /\ WellFormedSubscribe(last'.data)
      /\ last'.data.name.t # "string")
       => sent' = sent]_vars

\* C15 as claimed: every events envelope on the wire carries a non-empty
\* batch.
C15_BatchesNonEmpty ==
  \A n \in DOMAIN sent : sent[n].type = "events" => sent[n].batch # <<>>

\* A stream that is neither cancelled nor terminated.
Live(i) == ~streams[i].closed

\* C16: an open stream is the one the table holds under its id, and every
\* earlier stream under the same id was closed and had been cancelled by an
\* unsubscribe before the later one was started: at most one live stream
\* per subscriptionId.
C16_OneLiveStreamPerId ==
  /\ \A i \in DOMAIN streams :
       Live(i) => (/\ PropertyKey(streams[i].sid) \in DOMAIN subscriptions
                   /\ subscriptions[PropertyKey(streams[i].sid)] = i)
  /\ \A i, j \in DOMAIN streams :
       (i < j /\ streams[i].sid = streams[j].sid)
         => (~Live(i) /\ streams[i].cancelledBy = "unsubscribe")

\* C16 witness: a stream under id 1 was cancelled by an unsubscribe with
\* items undelivered, and a second stream under id 1 is open.
C16_Witness ==
  /\ Len(streams) = 2
  /\ streams[1].sid = Num(1) /\ streams[2].sid = Num(1)
  /\ streams[1].done = "" /\ streams[1].pending # <<>>
  /\ streams[1].cancelledBy = "unsubscribe"
  /\ Live(2)
  /\ subscriptions["1"] = 2

\* C17: a failure of one subscriptionId (a 404 or 500 answer to its
\* subscribe, or the error of its stream) leaves the table and every other
\* stream exactly as they were, so the others deliver as before.
C17_FailureIsScoped ==
  [][/\ \A i \in DOMAIN streams :
          (CallbackOf(last', i) /\ last'.op = "error")
            => (/\ subscriptions' = subscriptions
                /\ \A j \in DOMAIN streams \ {i} : streams'[j] = streams[j]
                /\ UNCHANGED <<readyState, closed, sessionId>>)
     /\ (IsMessage(last') /\ FreshSubscribe(last'.data, subscriptions)
         /\ lookup(last'.data.name) \in {NoFactory, "bad"})
          => (/\ subscriptions' = subscriptions
              /\ streams' = streams
              /\ UNCHANGED <<readyState, closed, sessionId>>)]_vars

\* C17 witness: the stream of id 1 failed while the stream of id 2 was
\* open, in the table, with items to deliver.
C17_Witness ==
  /\ last.op = "error"
  /\ streams[last.stream].sid = Num(1)
  /\ streams[last.stream].done = "error"
  /\ "2" \in DOMAIN subscriptions
  /\ Live(subscriptions["2"])
  /\ streams[subscriptions["2"]].pending # <<>>
  /\ readyState = 1

\* The complete envelope of stream i is on the wire: the stream completed
\* with nothing dropped, and the wire holds one complete envelope of its id
\* for each such stream of the id.
CompleteSent(i) ==
  /\ streams[i].done = "complete"
  /\ streams[i].dropped = 0
  /\ Cardinality({n \in DOMAIN sent :
                    sent[n].type = "complete" /\ sent[n].subscriptionId = streams[i].sid})
       = Cardinality({j \in DOMAIN streams :
                        /\ streams[j].sid = streams[i].sid
                        /\ streams[j].done = "complete"
                        /\ streams[j].dropped = 0})

\* C18: with the stream callbacks scheduled fairly, an accepted stream whose
\* source completes gets its complete envelope onto the wire, unless it is
\* cancelled or the socket leaves OPEN first; the complete callback runs
\* only when every item of the source has been delivered, writes the
\* complete envelope as the latest frame, and is the stream's last callback.
C18_EventuallyComplete ==
  /\ \A i \in 1..MaxMsgs :
       (i \in DOMAIN streams /\ streams[i].term = "complete")
         ~> (/\ i \in DOMAIN streams
             /\ \/ streams[i].cancelledBy # ""
                \/ readyState # 1
                \/ CompleteSent(i))
  /\ [][\A i \in DOMAIN streams :
          /\ (CallbackOf(last', i) /\ last'.op = "complete" /\ readyState = 1)
               => (/\ streams[i].pending = <<>>
                   /\ sent' = Append(sent,
                        [type |-> "complete", subscriptionId |-> streams[i].sid,
                         batch |-> <<>>,
                         error |-> [val |-> Undefined, code |-> Undefined,
                                    message |-> Undefined]]))
          /\ streams[i].done = "complete" => ~CallbackOf(last', i)]_vars

\* C18 witness: on an open socket a batched stream of two items, never
\* cancelled, has its complete envelope as the latest frame of the wire,
\* after one events envelope with both items.
C18_Witness ==
  \E i \in DOMAIN streams :
    /\ ~streams[i].array
    /\ Len(streams[i].source) = 2
    /\ streams[i].cancelledBy = ""
    /\ readyState = 1
    /\ CompleteSent(i)
    /\ streams[i].wrote = 2
    /\ sent[Len(sent)].type = "complete"
    /\ sent[Len(sent)].subscriptionId = streams[i].sid

\* C19: the record of factory calls grows only in the step of a subscribe
\* with numeric offset and subscriptionId, an id that is no key of the table
\* and a name the catalog resolves; that step appends exactly one call,
\* carrying the resolved factory, the offset of the message and the
\* sessionId current at that moment. A hello changes neither the table, nor
\* any stream, nor the calls, nor the wire.
C19_FactoryCalledOnce ==
  [][LET accepted == /\ IsMessage(last')
                     /\ FreshSubscribe(last'.data, subscriptions)
                     /\ lookup(last'.data.name) # NoFactory
     IN /\ calls' # calls => accepted
        /\ accepted
             => calls' = Append(calls, [fn |-> lookup(last'.data.name),
                                        offset |-> last'.data.offset,
                                        sessionId |-> sessionId])
        /\ (IsMessage(last') /\ IsHello(last'.data))
             => (/\ subscriptions' = subscriptions
                 /\ streams' = streams
                 /\ calls' = calls
                 /\ sent' = sent)]_vars

\* C19 witness: a factory was called with sessionId null, a hello then set
\* the sessionId, and the stream of that call is still live in the table.
C19_Witness ==
  /\ IsMessage(last) /\ AcceptedHello(last.data)
  /\ sessionId = last.data.sessionId
  /\ Len(calls) = 1
  /\ calls[1].sessionId = Null
  /\ calls[1].fn = "feed"
  /\ \E key \in DOMAIN subscriptions : Live(subscriptions[key])

====
